---------------------------- MODULE Spec2Model ----------------------------
(***************************************************************************)
(* Complex.js v1.5.0 (src/complex.js): the Complex value type, its parser  *)
(* with the shared scratch record P, and its arithmetic.                   *)
(*                                                                         *)
(* Numbers.  A JavaScript Number is an IEEE-754 binary floating point      *)
(* value.  The model keeps the IEEE semantics (round to nearest, ties to   *)
(* even; gradual underflow; overflow to Infinity; NaN) on a small format:  *)
(* Prec significand bits, a smallest positive value of 2^-Frac and a       *)
(* largest finite value of (2^Prec - 1) * 2^KMax / 2^Frac.  binary64 is    *)
(* the same format with Prec = 53, Frac = 1074, KMax = 2045.  A finite     *)
(* number is held as the integer n = value * 2^Frac; PInf, NInf and NaN    *)
(* are three integers outside the finite range.  The sign of zero is not   *)
(* modelled: -0 and +0 are one value, and x / 0 takes the sign of x.       *)
(***************************************************************************)
EXTENDS Integers, Sequences, FiniteSets, TLC

Prec == 3
Frac == 3
KMax == 4

Unit == 2 ^ Frac
MaxN == (2 ^ Prec - 1) * 2 ^ KMax
PInf == MaxN + 1
NInf == 0 - PInf
NaN  == MaxN + 2

IsNaN(a)    == a = NaN
IsFinite(a) == a > NInf /\ a < PInf
Sgn(a)      == IF a > 0 THEN 1 ELSE IF a < 0 THEN 0 - 1 ELSE 0
Mag(a)      == IF a < 0 THEN 0 - a ELSE a

(***************************************************************************)
(* Rounding of the exact rational num / den (in units of 2^-Frac, den > 0) *)
(* to the nearest representable number, ties to even.                      *)
(***************************************************************************)
RECURSIVE Binade(_, _, _)
Binade(a, den, k) ==
    IF k > KMax \/ a < den * 2 ^ (Prec + k) THEN k ELSE Binade(a, den, k + 1)

\* the integer nearest to m + r / step (0 <= r < step), ties to even
Nearest(m, r, step) ==
    IF 2 * r > step \/ (2 * r = step /\ m % 2 = 1) THEN m + 1 ELSE m

Overflow(n) == IF n > MaxN THEN PInf ELSE n

\* a / den to a multiple of w = 2^k, step being den * w
RndAt(a, step, w) == Overflow(Nearest(a \div step, a % step, step) * w)

RndIn(a, den, k) == IF k > KMax THEN PInf ELSE RndAt(a, den * 2 ^ k, 2 ^ k)

RndMag(a, den) == RndIn(a, den, Binade(a, den, 0))

Rnd(num, den) == Sgn(num) * RndMag(Mag(num), den)

\* Whether num / den is representable, so that Rnd returns it unchanged.
Exact(num, den) == LET r == Rnd(num, den) IN IsFinite(r) /\ r * den = num

\* A decimal literal of the source, mille / 1000, as the Number it denotes.
Lit(mille) == Rnd(mille * Unit, 1000)

(***************************************************************************)
(* The arithmetic operators of the language on Numbers.                    *)
(***************************************************************************)
FNeg(a) == IF IsNaN(a) THEN NaN ELSE 0 - a

FAdd(a, b) ==
    IF IsNaN(a) \/ IsNaN(b) THEN NaN
    ELSE IF ~IsFinite(a) THEN (IF ~IsFinite(b) /\ b # a THEN NaN ELSE a)
    ELSE IF ~IsFinite(b) THEN b
    ELSE Rnd(a + b, 1)

FSub(a, b) == FAdd(a, FNeg(b))

FMul(a, b) ==
    IF IsNaN(a) \/ IsNaN(b) THEN NaN
    ELSE IF ~IsFinite(a) \/ ~IsFinite(b)
         THEN (IF a = 0 \/ b = 0 THEN NaN
               ELSE IF Sgn(a) = Sgn(b) THEN PInf ELSE NInf)
    ELSE Rnd(a * b, Unit)

FDiv(a, b) ==
    IF IsNaN(a) \/ IsNaN(b) THEN NaN
    ELSE IF ~IsFinite(a)
         THEN (IF ~IsFinite(b) THEN NaN
               ELSE IF b < 0 THEN 0 - a ELSE a)
    ELSE IF ~IsFinite(b) THEN 0
    ELSE IF b = 0
         THEN (IF a = 0 THEN NaN ELSE IF a > 0 THEN PInf ELSE NInf)
    ELSE IF b < 0 THEN Rnd((0 - a) * Unit, 0 - b)
    ELSE Rnd(a * Unit, b)

\* a < b, a <= b and a === b on Numbers: false as soon as one side is NaN.
FLt(a, b) == ~IsNaN(a) /\ ~IsNaN(b) /\ a < b
FLe(a, b) == ~IsNaN(a) /\ ~IsNaN(b) /\ a <= b
FEq(a, b) == ~IsNaN(a) /\ ~IsNaN(b) /\ a = b


(***************************************************************************)
(* The Math library.  Math.abs, Math.ceil, Math.floor and Math.round are   *)
(* exact; Math.sqrt is the correctly rounded root, and Math.pow with an    *)
(* integer exponent the correctly rounded power.  The transcendental       *)
(* functions are "implementation-approximated" in ECMAScript.  Apart from  *)
(* the special cases the language fixes (Math.cos(0) = 1, Math.log(0) =    *)
(* -Infinity, ...), the model knows of each call an interval that holds    *)
(* the function's value, and lets the call return either end of it: a      *)
(* Math function maps its argument to the SET of Numbers it may return.    *)
(***************************************************************************)
\* one half, and the second smallest positive number of the format
Half == Unit \div 2
Tiny == 2 ^ 1

MathAbs(a) == IF IsNaN(a) THEN NaN ELSE Mag(a)

\* floor(sqrt(n)) for an integer n >= 0
RECURSIVE ISqrt(_, _)
ISqrt(n, s) == IF (s + 1) * (s + 1) > n THEN s ELSE ISqrt(n, s + 1)

RECURSIVE SqrtBinade(_, _)
SqrtBinade(n, k) ==
    IF n < (2 ^ (Prec + k)) * (2 ^ (Prec + k)) THEN k ELSE SqrtBinade(n, k + 1)

\* m or m + 1, whichever is nearer the root of n in steps; mid is the square
\* of twice the midpoint between them
NearestRoot(n, m, mid) ==
    IF 4 * n > mid \/ (4 * n = mid /\ m % 2 = 1) THEN m + 1 ELSE m

SqrtAt(n, m, step) ==
    NearestRoot(n, m, (2 * m + 1) * (2 * m + 1) * step * step) * step

SqrtIn(n, step) == SqrtAt(n, ISqrt(n, 0) \div step, step)

\* sqrt(a / Unit) * Unit = sqrt(a * Unit)
MathSqrt(a) ==
    IF IsNaN(a) \/ a < 0 THEN NaN
    ELSE IF a = PInf THEN PInf
    ELSE SqrtIn(a * Unit, 2 ^ SqrtBinade(a * Unit, 0))

IsInt(a) == IsFinite(a) /\ a % Unit = 0

\* <<num, den>> with num / den = (n / d) * (b / u)^e, or a pair that rounds
\* alike once the value has left the range of the format for good
RECURSIVE PowQ(_, _, _, _, _)
PowQ(n, d, b, u, e) ==
    IF e = 0 THEN <<n, d>>
    ELSE IF b >= u /\ n > 2 * PInf * d THEN <<2 * PInf, 1>>
    ELSE IF b <= u /\ 4 * n < d THEN <<0, 1>>
    ELSE PowQ(n * b, d * u, b, u, e - 1)

\* Math.pow(x, y) for finite x and y (the source calls it with no others):
\* correctly rounded for an integer y of at most 4 in size, and one end of
\* an enclosing interval otherwise
MathPow(x, y) ==
    IF y = 0 THEN {Unit}
    ELSE IF ~IsFinite(x) \/ ~IsFinite(y) THEN {NaN}
    ELSE IF x = 0 THEN (IF y > 0 THEN {0} ELSE {PInf})
    ELSE IF IsInt(y) /\ Mag(y) <= 4 * Unit
         THEN LET e == Mag(y) \div Unit
                  s == IF x < 0 /\ e % 2 = 1 THEN 0 - 1 ELSE 1
                  q == IF y > 0 THEN PowQ(Unit, 1, Mag(x), Unit, e)
                                ELSE PowQ(Unit, 1, Unit, Mag(x), e)
              IN  {Rnd(s * q[1], q[2])}
    ELSE IF x < 0 /\ ~IsInt(y) THEN {NaN}
    ELSE LET s == IF x < 0 /\ (Mag(y) \div Unit) % 2 = 1 THEN 0 - 1 ELSE 1
         IN  IF Mag(x) = Unit THEN {s * Unit}
             ELSE IF (Mag(x) > Unit) = (y > 0) THEN {s * Unit, s * PInf}
             ELSE {0, s * Unit}

MathExp(a) ==
    IF IsNaN(a) THEN {NaN}
    ELSE IF a = 0 THEN {Unit}
    ELSE IF a = PInf THEN {PInf}
    ELSE IF a = NInf THEN {0}
    ELSE IF a > 0 THEN {FAdd(Unit, a), PInf}          \* e^a >= 1 + a
    ELSE {0, Unit}

MathLog(a) ==
    IF IsNaN(a) \/ a < 0 THEN {NaN}
    ELSE IF a = 0 THEN {NInf}
    ELSE IF a = Unit THEN {0}
    ELSE IF a = PInf THEN {PInf}
    ELSE IF a > Unit THEN {0, FSub(a, Unit)}          \* 0 < ln a <= a - 1
    ELSE {FSub(Unit, FDiv(Unit, a)), FSub(a, Unit)}   \* 1 - 1/a <= ln a <= a - 1

MathCos(a) ==
    IF ~IsFinite(a) THEN {NaN}
    ELSE IF a = 0 THEN {Unit}
    ELSE {0 - Unit, Unit}

MathSin(a) ==
    IF ~IsFinite(a) THEN {NaN}
    ELSE IF a = 0 THEN {0}
    ELSE IF Mag(a) < Unit THEN {0 - Mag(a), Mag(a)}   \* |sin a| <= |a|
    ELSE {0 - Unit, Unit}

MathCosh(a) ==
    IF IsNaN(a) THEN {NaN}
    ELSE IF a = 0 THEN {Unit}
    ELSE {Unit, PInf}

MathSinh(a) ==
    IF IsNaN(a) THEN {NaN}
    ELSE IF a = 0 THEN {0}
    ELSE {a, Sgn(a) * PInf}                           \* |sinh a| >= |a|

\* Math.PI and Math.E, and the quarter turn Math.atan2 returns on the axes
MathPI == Rnd(355 * Unit, 113)
MathE  == Rnd(2721 * Unit, 1001)
HalfPI == Rnd(355 * Unit, 226)

MathAtan2(y, x) ==
    IF IsNaN(y) \/ IsNaN(x) THEN {NaN}
    ELSE IF y = 0 THEN (IF x >= 0 THEN {0} ELSE {MathPI})
    ELSE IF x = 0 \/ (IsFinite(x) /\ ~IsFinite(y)) THEN {Sgn(y) * HalfPI}
    ELSE IF x = PInf /\ IsFinite(y) THEN {0}
    ELSE IF x = NInf /\ IsFinite(y) THEN {Sgn(y) * MathPI}
    ELSE IF x > 0 THEN {0, Sgn(y) * HalfPI}
    ELSE {Sgn(y) * HalfPI, Sgn(y) * MathPI}

\* Math.ceil, Math.floor and Math.round (round half up) of a Number
MathFloor(a) == IF ~IsFinite(a) THEN a ELSE (a \div Unit) * Unit
MathCeil(a)  == IF ~IsFinite(a) THEN a ELSE 0 - ((0 - a) \div Unit) * Unit
MathRound(a) == IF ~IsFinite(a) THEN a ELSE ((a + Half) \div Unit) * Unit


(***************************************************************************)
(* Objects, the scratch record and the arguments of a call.                *)
(*                                                                         *)
(* heap is the sequence of the Complex objects that exist, an object being *)
(* its two fields; an address is an index of heap.  A machine m is the     *)
(* pair [heap, P] a piece of code runs on, P being the closure's scratch   *)
(* record.  A step of code maps a machine to the SET of its outcomes (one  *)
(* per choice of the Math library): the new heap and P, how it ended (out) *)
(* and what it returned (val: the address of the Complex it constructed,   *)
(* bool: the boolean of equals).                                           *)
(*                                                                         *)
(* An argument (a, b) of a constructor or method call is a record In:      *)
(*   "undef"  a is undefined or null                                       *)
(*   "pair"   two Numbers a, b                  "num"   one Number a       *)
(*   "ref"    the Complex object at address a                              *)
(*   "reim"   the object {re: a, im: b}         "polar" {abs: a, arg: b}   *)
(*   "obj"    an object with neither pair of keys                          *)
(*   "bool"   a value of any other type                                    *)
(*   "str"    a string, given by the matches toks of parse's regular       *)
(*            expression on it: each match is an imaginary term (i) or a   *)
(*            real one, with the Number v that parseFloat reads from it    *)
(***************************************************************************)
\* EPSILON = 1e-16 is less than half the distance from 1 to the next Number:
\* in the format of the model that is less than the smallest positive number.
EPSILON  == 0
\* The threshold 1000 of abs and logsq2 is there so that below it a*a + b*b
\* cannot overflow.  1000 is beyond the format of the model: 2 takes its
\* place, the squares of Numbers below it being as safe.
Thousand == 2 * Unit

Obj(re, im) == [re |-> re, im |-> im]
PUndef      == Obj(NaN, NaN)     \* P = {r: 0, i: 0}: P.re and P.im are undefined

In(k, a, b, toks) == [k |-> k, a |-> a, b |-> b, toks |-> toks]
UndefIn     == In("undef", 0, 0, <<>>)
PairIn(a, b) == In("pair", a, b, <<>>)
NumIn(a)    == In("num", a, 0, <<>>)
RefIn(a)    == In("ref", a, 0, <<>>)
ReImIn(a, b) == In("reim", a, b, <<>>)
PolarIn(a, b) == In("polar", a, b, <<>>)
ObjIn       == In("obj", 0, 0, <<>>)
BoolIn      == In("bool", 0, 0, <<>>)
StrIn(toks) == In("str", 0, 0, toks)
Tok(i, v)   == [i |-> i, v |-> v]

Mach(heap, P) == [heap |-> heap, P |-> P]
Returned(m, val) ==
    [heap |-> m.heap, P |-> m.P, out |-> "ok", val |-> val, bool |-> FALSE]
ReturnedBool(m, b) ==
    [heap |-> m.heap, P |-> m.P, out |-> "ok", val |-> 0, bool |-> b]
Thrown(m, err) ==
    [heap |-> m.heap, P |-> m.P, out |-> err, val |-> 0, bool |-> FALSE]
ParserExit(m) == Thrown(m, "InvalidArgument")      \* throw "Invalid Param"

\* the loop of parse's case "string" over the matches, from P = (0, 0)
RECURSIVE ParseToks(_, _)
ParseToks(toks, acc) ==
    IF toks = <<>> THEN acc
    ELSE LET t == Head(toks) IN
         ParseToks(Tail(toks),
                   IF t.i THEN Obj(acc.re, FAdd(acc.im, t.v))
                          ELSE Obj(FAdd(acc.re, t.v), acc.im))

\* parse whose case "number" forgets line 175 (P.im = 0)
StagedNumKeepsIm(m, in) ==
    CASE in.k = "undef" -> {<<Obj(0, 0)>>}
      [] in.k = "pair"  -> {<<Obj(in.a, in.b)>>}
      [] in.k = "ref"   -> {<<Obj(m.heap[in.a].re, m.heap[in.a].im)>>}
      [] in.k = "reim"  -> {<<Obj(in.a, in.b)>>}
      [] in.k = "polar" -> {<<Obj(FMul(in.a, c), FMul(in.a, s))>> :
                               c \in MathCos(in.b), s \in MathSin(in.b)}
      [] in.k = "num"   -> {<<Obj(in.a, m.P.im)>>}
      [] in.k = "str"   -> {<<ParseToks(in.toks, Obj(0, 0))>>}
      [] OTHER          -> {<<>>}

\* The values parse leaves in P before its last check; <<>> marks a call of
\* parser_exit that happens before P is written.
Staged(m, in) ==
    CASE in.k = "undef" -> {<<Obj(0, 0)>>}
      [] in.k = "pair"  -> {<<Obj(in.a, in.b)>>}
      [] in.k = "ref"   -> {<<Obj(m.heap[in.a].re, m.heap[in.a].im)>>}
      [] in.k = "reim"  -> {<<Obj(in.a, in.b)>>}
      [] in.k = "polar" -> {<<Obj(FMul(in.a, c), FMul(in.a, s))>> :
                               c \in MathCos(in.b), s \in MathSin(in.b)}
      [] in.k = "num"   -> {<<Obj(in.a, 0)>>}
      [] in.k = "str"   -> {<<ParseToks(in.toks, Obj(0, 0))>>}
      [] OTHER          -> {<<>>}

\* parse(a, b): the machine after it, ended "ok" or by parser_exit
parse(m, in) ==
    { IF st = <<>> THEN ParserExit(m)
      ELSE LET m1 == Mach(m.heap, st[1]) IN
           IF in.k = "str" /\ in.toks = <<>> THEN ParserExit(m1)
           ELSE IF IsNaN(FMul(st[1].re, st[1].im)) THEN ParserExit(m1)
           ELSE Returned(m1, 0)
      : st \in Staged(m, in) }

\* new Complex(a, b): parse, then the two fields of the new object from P
Complex(m, in) ==
    { IF p.out # "ok" THEN p
      ELSE Returned(Mach(Append(p.heap, Obj(p.P.re, p.P.im)), p.P), Len(p.heap) + 1)
      : p \in parse(m, in) }



(***************************************************************************)
(* The methods of Complex.prototype.  this is the receiver's address.      *)
(***************************************************************************)
Re(m, this) == m.heap[this].re
Im(m, this) == m.heap[this].im

\* Complex.ZERO, ONE, I, PI, E: the addresses of the five shared objects
ZERO == 1
ONE  == 2
I    == 3
PI   == 4
E    == 5

heaviside(x) == IF FLt(x, 0) THEN 0 - Unit ELSE Unit

\* this.abs(), a Number
abs(m, this) ==
    LET a == MathAbs(Re(m, this))
        b == MathAbs(Im(m, this))
    IN  IF FLt(a, Thousand) /\ FLt(b, Thousand)
        THEN MathSqrt(FAdd(FMul(a, a), FMul(b, b)))
        ELSE IF FLt(a, b)
             THEN LET q == FDiv(Re(m, this), Im(m, this))
                  IN  FMul(b, MathSqrt(FAdd(Unit, FMul(q, q))))
             ELSE LET q == FDiv(Im(m, this), Re(m, this))
                  IN  FMul(a, MathSqrt(FAdd(Unit, FMul(q, q))))

logsq2(a, b) ==
    LET ua == MathAbs(a)
        ub == MathAbs(b)
    IN  IF FEq(a, 0) THEN MathLog(ub)
        ELSE IF FEq(b, 0) THEN MathLog(ua)
        ELSE IF FLt(ua, Thousand) /\ FLt(ub, Thousand)
             THEN {FMul(l, Half) : l \in MathLog(FAdd(FMul(a, a), FMul(b, b)))}
        ELSE UNION {UNION {MathLog(FDiv(a, c)) : c \in MathCos(t)} : t \in MathAtan2(b, a)}

sign(m, this) ==
    LET r == abs(m, this)
    IN  Complex(m, PairIn(FDiv(Re(m, this), r), FDiv(Im(m, this), r)))

add(m, this, in) ==
    UNION { IF p.out # "ok" THEN {p} ELSE
        Complex(p, PairIn(FAdd(Re(p, this), p.P.re), FAdd(Im(p, this), p.P.im)))
            : p \in parse(m, in) }

sub(m, this, in) ==
    UNION { IF p.out # "ok" THEN {p} ELSE
        Complex(p, PairIn(FSub(Re(p, this), p.P.re), FSub(Im(p, this), p.P.im)))
            : p \in parse(m, in) }

\* mul with the sign of line 263 wrong: re = a*c + b*d
mulAddsInRe(m, this, in) ==
    UNION { IF p.out # "ok" THEN {p} ELSE
        Complex(p, PairIn(FAdd(FMul(Re(p, this), p.P.re), FMul(Im(p, this), p.P.im)),
                          FAdd(FMul(Re(p, this), p.P.im), FMul(Im(p, this), p.P.re))))
            : p \in parse(m, in) }

mul(m, this, in) ==
    UNION { IF p.out # "ok" THEN {p} ELSE
        Complex(p, PairIn(FSub(FMul(Re(p, this), p.P.re), FMul(Im(p, this), p.P.im)),
                          FAdd(FMul(Re(p, this), p.P.im), FMul(Im(p, this), p.P.re))))
            : p \in parse(m, in) }

\* div with the zero check of line 285 made on the real part only
divChecksReOnly(m, this, in) ==
    UNION { IF p.out # "ok" THEN {p} ELSE
        LET a == Re(p, this)
            b == Im(p, this)
            c == p.P.re
            d == p.P.im
        IN  IF FEq(0, c) THEN {Thrown(p, "DivisionByZero")}
            ELSE LET x == FDiv(d, c)
                     t == FAdd(FMul(d, x), c)
                 IN  Complex(p, PairIn(FDiv(FAdd(a, FMul(b, x)), t),
                                       FDiv(FSub(b, FMul(a, x)), t)))
            : p \in parse(m, in) }

\* The scalars of div for the divisor (c, d): the test of line 289, the
\* denominator of the ratio x, the ratio x and the common denominator t.
divSwaps(c, d) == FLt(MathAbs(c), MathAbs(d))
divRatioDenominator(c, d) == IF divSwaps(c, d) THEN d ELSE c
divX(c, d) == IF divSwaps(c, d) THEN FDiv(c, d) ELSE FDiv(d, c)

\* t with the sum of lines 291 and 299 made a difference
divTSubtracts(c, d) ==
    IF divSwaps(c, d) THEN FSub(FMul(c, divX(c, d)), d)
    ELSE FSub(FMul(d, divX(c, d)), c)

divT(c, d) ==
    IF divSwaps(c, d) THEN FAdd(FMul(c, divX(c, d)), d)
    ELSE FAdd(FMul(d, divX(c, d)), c)

div(m, this, in) ==
    UNION { IF p.out # "ok" THEN {p} ELSE
        LET a == Re(p, this)
            b == Im(p, this)
            c == p.P.re
            d == p.P.im
            x == divX(c, d)
            t == divT(c, d)
        IN  IF FEq(0, c) /\ FEq(0, d) THEN {Thrown(p, "DivisionByZero")}
            ELSE IF divSwaps(c, d)
                 THEN Complex(p, PairIn(FDiv(FAdd(FMul(a, x), b), t),
                                        FDiv(FSub(FMul(b, x), a), t)))
                 ELSE Complex(p, PairIn(FDiv(FAdd(a, FMul(b, x)), t),
                                        FDiv(FSub(b, FMul(a, x)), t)))
            : p \in parse(m, in) }

\* a % 4: the remainder takes the sign of the dividend
Rem4(a) == IF ~IsFinite(a) THEN NaN ELSE Sgn(a) * (Mag(a) % (4 * Unit))

\* the general branch of pow, from line 366 on
powGeneral(p, a, b) ==
    UNION { UNION { UNION {
        LET ang == FAdd(FMul(p.P.im, lg), FMul(p.P.re, arg))
        IN  UNION { UNION { Complex(p, PairIn(FMul(e, c), FMul(e, sn)))
                            : sn \in MathSin(ang) } : c \in MathCos(ang) }
        : e \in MathExp(FSub(FMul(p.P.re, lg), FMul(p.P.im, arg))) }
        : lg \in logsq2(a, b) } : arg \in MathAtan2(b, a) }

pow(m, this, in) ==
    UNION { IF p.out # "ok" THEN {p} ELSE
        LET a == Re(p, this)
            b == Im(p, this)
            r == Rem4(p.P.re)
        IN  IF FEq(a, 0) /\ FEq(b, 0) THEN Complex(p, PairIn(0, 0))
            ELSE IF FEq(p.P.im, 0) /\ FEq(b, 0) /\ FLe(0, a)
                 THEN UNION {Complex(p, PairIn(w, 0)) : w \in MathPow(a, p.P.re)}
            ELSE IF FEq(p.P.im, 0) /\ FEq(a, 0) /\ FEq(r, 0)
                 THEN UNION {Complex(p, PairIn(w, 0)) : w \in MathPow(b, p.P.re)}
            ELSE IF FEq(p.P.im, 0) /\ FEq(a, 0) /\ FEq(r, Unit)
                 THEN UNION {Complex(p, PairIn(0, w)) : w \in MathPow(b, p.P.re)}
            ELSE IF FEq(p.P.im, 0) /\ FEq(a, 0) /\ FEq(r, 2 * Unit)
                 THEN UNION {Complex(p, PairIn(FNeg(w), 0)) : w \in MathPow(b, p.P.re)}
            ELSE IF FEq(p.P.im, 0) /\ FEq(a, 0) /\ FEq(r, 3 * Unit)
                 THEN UNION {Complex(p, PairIn(0, FNeg(w))) : w \in MathPow(b, p.P.re)}
            ELSE powGeneral(p, a, b)
            : p \in parse(m, in) }

sqrt(m, this) ==
    LET r == abs(m, this)
    IN  Complex(m, PairIn(MathSqrt(FMul(FAdd(r, Re(m, this)), Half)),
                          FMul(MathSqrt(FMul(FSub(r, Re(m, this)), Half)),
                               heaviside(Im(m, this)))))

exp(m, this) ==
    UNION { UNION { UNION {
        Complex(m, PairIn(FMul(tmp, c), FMul(tmp, sn)))
        : sn \in MathSin(Im(m, this)) } : c \in MathCos(Im(m, this)) }
        : tmp \in MathExp(Re(m, this)) }

log(m, this) ==
    UNION { UNION { Complex(m, PairIn(lg, t))
        : t \in MathAtan2(Im(m, this), Re(m, this)) }
        : lg \in logsq2(Re(m, this), Im(m, this)) }

sin(m, this) ==
    LET a == Re(m, this)
        b == Im(m, this)
    IN  UNION { UNION { UNION { UNION {
            Complex(m, PairIn(FMul(sn, ch), FMul(c, sh)))
            : sh \in MathSinh(b) } : c \in MathCos(a) }
            : ch \in MathCosh(b) } : sn \in MathSin(a) }

cos(m, this) ==
    LET a == Re(m, this)
        b == Im(m, this)
    IN  UNION { UNION { UNION { UNION {
            Complex(m, PairIn(FMul(c, ch), FMul(FNeg(sn), sh)))
            : sh \in MathSinh(b) } : sn \in MathSin(a) }
            : ch \in MathCosh(b) } : c \in MathCos(a) }

tan(m, this) ==
    LET a == FMul(2 * Unit, Re(m, this))
        b == FMul(2 * Unit, Im(m, this))
    IN  UNION { UNION { UNION { UNION {
            LET d == FAdd(c, ch)
            IN  Complex(m, PairIn(FDiv(sn, d), FDiv(sh, d)))
            : sh \in MathSinh(b) } : sn \in MathSin(a) }
            : ch \in MathCosh(b) } : c \in MathCos(a) }

sinh(m, this) ==
    LET a == Re(m, this)
        b == Im(m, this)
    IN  UNION { UNION { UNION { UNION {
            Complex(m, PairIn(FMul(sh, c), FMul(ch, sn)))
            : sn \in MathSin(b) } : ch \in MathCosh(a) }
            : c \in MathCos(b) } : sh \in MathSinh(a) }

cosh(m, this) ==
    LET a == Re(m, this)
        b == Im(m, this)
    IN  UNION { UNION { UNION { UNION {
            Complex(m, PairIn(FMul(ch, c), FMul(sh, sn)))
            : sn \in MathSin(b) } : sh \in MathSinh(a) }
            : c \in MathCos(b) } : ch \in MathCosh(a) }

tanh(m, this) ==
    LET a == FMul(2 * Unit, Re(m, this))
        b == FMul(2 * Unit, Im(m, this))
    IN  UNION { UNION { UNION { UNION {
            LET d == FAdd(ch, c)
            IN  Complex(m, PairIn(FDiv(sh, d), FDiv(sn, d)))
            : sn \in MathSin(b) } : sh \in MathSinh(a) }
            : c \in MathCos(b) } : ch \in MathCosh(a) }

inverse(m, this) ==
    LET a == Re(m, this)
        b == Im(m, this)
        t == FAdd(FMul(a, a), FMul(b, b))
    IN  IF FEq(0, t) THEN {Thrown(m, "DivisionByZero")}
        ELSE Complex(m, PairIn(FDiv(a, t), FDiv(FNeg(b), t)))

conjugate(m, this) == Complex(m, PairIn(Re(m, this), FNeg(Im(m, this))))

\* neg that negates the receiver's own fields and returns the receiver
negInPlace(m, this) ==
    {Returned(Mach([m.heap EXCEPT ![this] = Obj(FNeg(Re(m, this)), FNeg(Im(m, this)))],
                   m.P), this)}

neg(m, this) == Complex(m, PairIn(FNeg(Re(m, this)), FNeg(Im(m, this))))

\* Math.pow(10, places || 0), places being undefined or a Number
Places(in) ==
    MathPow(10 * Unit, IF in.k = "num" /\ ~IsNaN(in.a) THEN in.a ELSE 0)

ceil(m, this, in) ==
    UNION { Complex(m, PairIn(FDiv(MathCeil(FMul(Re(m, this), pl)), pl),
                              FDiv(MathCeil(FMul(Im(m, this), pl)), pl)))
            : pl \in Places(in) }

floor(m, this, in) ==
    UNION { Complex(m, PairIn(FDiv(MathFloor(FMul(Re(m, this), pl)), pl),
                              FDiv(MathFloor(FMul(Im(m, this), pl)), pl)))
            : pl \in Places(in) }

round(m, this, in) ==
    UNION { Complex(m, PairIn(FDiv(MathRound(FMul(Re(m, this), pl)), pl),
                              FDiv(MathRound(FMul(Im(m, this), pl)), pl)))
            : pl \in Places(in) }

equals(m, this, in) ==
    UNION { IF p.out # "ok" THEN {p} ELSE
        {ReturnedBool(p, FLe(MathAbs(FSub(p.P.re, Re(p, this))), EPSILON)
                         /\ FLe(MathAbs(FSub(p.P.im, Im(p, this))), EPSILON))}
            : p \in parse(m, in) }

clone(m, this) == Complex(m, PairIn(Re(m, this), Im(m, this)))

\* The calls of a chain are made left to right, each on the value the one
\* before returned.  v.mul(v).neg().add(1).sqrt(), where asin and acos start:
rootOfOneMinusSquare(m, v) ==
    UNION { IF s1.out # "ok" THEN {s1} ELSE
    UNION { IF s2.out # "ok" THEN {s2} ELSE
    UNION { IF s3.out # "ok" THEN {s3} ELSE sqrt(s3, s3.val)
            : s3 \in add(s2, s2.val, NumIn(Unit)) }
            : s2 \in neg(s1, s1.val) }
            : s1 \in mul(m, v, RefIn(v)) }

\* v.log().mul(Complex.I).neg(), where asin and acos end
negILog(m, v) ==
    UNION { IF s1.out # "ok" THEN {s1} ELSE
    UNION { IF s2.out # "ok" THEN {s2} ELSE neg(s2, s2.val)
            : s2 \in mul(s1, s1.val, RefIn(I)) }
            : s1 \in log(m, v) }

asin(m, this) ==
    UNION { IF s1.out # "ok" THEN {s1} ELSE
    UNION { IF s2.out # "ok" THEN {s2} ELSE
    UNION { IF s3.out # "ok" THEN {s3} ELSE negILog(s3, s3.val)
            : s3 \in add(s2, s1.val, RefIn(s2.val)) }
            : s2 \in mul(s1, this, RefIn(I)) }
            : s1 \in rootOfOneMinusSquare(m, this) }

acos(m, this) ==
    UNION { IF s1.out # "ok" THEN {s1} ELSE
    UNION { IF s2.out # "ok" THEN {s2} ELSE
    UNION { IF s3.out # "ok" THEN {s3} ELSE negILog(s3, s3.val)
            : s3 \in add(s2, s2.val, RefIn(this)) }
            : s2 \in mul(s1, s1.val, RefIn(I)) }
            : s1 \in rootOfOneMinusSquare(m, this) }

\* atan with the operands of its first division exchanged
atanSwapped(m, this) ==
    UNION { IF s1.out # "ok" THEN {s1} ELSE
    UNION { IF s2.out # "ok" THEN {s2} ELSE
    UNION { IF s3.out # "ok" THEN {s3} ELSE
    UNION { IF s4.out # "ok" THEN {s4} ELSE
    UNION { IF s5.out # "ok" THEN {s5} ELSE div(s5, s5.val, NumIn(2 * Unit))
            : s5 \in mul(s4, s4.val, RefIn(I)) }
            : s4 \in log(s3, s3.val) }
            : s3 \in div(s2, s2.val, RefIn(s1.val)) }
            : s2 \in sub(s1, I, RefIn(this)) }
            : s1 \in add(m, I, RefIn(this)) }

atan(m, this) ==
    UNION { IF s1.out # "ok" THEN {s1} ELSE
    UNION { IF s2.out # "ok" THEN {s2} ELSE
    UNION { IF s3.out # "ok" THEN {s3} ELSE
    UNION { IF s4.out # "ok" THEN {s4} ELSE
    UNION { IF s5.out # "ok" THEN {s5} ELSE div(s5, s5.val, NumIn(2 * Unit))
            : s5 \in mul(s4, s4.val, RefIn(I)) }
            : s4 \in log(s3, s3.val) }
            : s3 \in div(s2, s1.val, RefIn(s2.val)) }
            : s2 \in sub(s1, I, RefIn(this)) }
            : s1 \in add(m, I, RefIn(this)) }


(***************************************************************************)
(* The program as a state machine.  heap[1..5] are the shared constants;   *)
(* heap[6], when it exists, is the one object the caller has constructed.  *)
(* recv is the address of the object the caller holds (0: none): a         *)
(* constant or heap[6].  res records the last call: the method, its        *)
(* argument, how it ended and the value it returned.                       *)
(*                                                                         *)
(* The caller constructs an object (New, which may fail and be repeated)   *)
(* or picks a constant (Use), possibly constructs another value in between *)
(* (Drop, which only leaves its traces in P), then calls one method on the *)
(* object it holds; Reload starts over with a freshly loaded library.      *)
(***************************************************************************)
VARIABLES heap, P, recv, res

vars == <<heap, P, recv, res>>

N(q) == q * Unit        \* the integer q as a Number

\* res: the call op(in) made on the receiver of fields self from scratch
\* record P0, how it ended, and the fields of the value it returned
NoVal == Obj(NaN, NaN)
Res(op, in, o, self, P0) ==
    [op |-> op, in |-> in, self |-> self, P0 |-> P0, out |-> o.out,
     has |-> o.val > 0, val |-> IF o.val > 0 THEN o.heap[o.val] ELSE NoVal,
     bool |-> o.bool]

\* the library's load: lines 45 and 776-780
Loaded ==
    LET s1 == CHOOSE o \in Complex(Mach(<<>>, PUndef), UndefIn) : TRUE
        s2 == CHOOSE o \in Complex(s1, PairIn(N(1), 0)) : TRUE
        s3 == CHOOSE o \in Complex(s2, PairIn(0, N(1))) : TRUE
        s4 == CHOOSE o \in Complex(s3, PairIn(MathPI, 0)) : TRUE
    IN  CHOOSE o \in Complex(s4, PairIn(MathE, 0)) : TRUE

Consts == {ZERO, ONE, I, PI, E}
NConsts == Cardinality(Consts)

\* what the caller passes to the constructor
XPairs ==
    { <<0, 0>>, <<N(1), 0>>, <<0, N(1)>>, <<N(1), N(1)>>, <<N(1), N(2)>>,
      <<N(2), N(1)>>, <<N(3), N(4)>>, <<0 - N(3), N(4)>>, <<N(4), 0>>,
      <<0 - N(4), 0>>, <<0, N(2)>>, <<0, 0 - N(2)>>, <<0, 0 - N(1)>>,
      <<Half, 0>>, <<Tiny, 0>>, <<0, Tiny>>, <<Tiny \div 2, Tiny>>,
      <<MaxN, 0>>, <<MaxN, MaxN>>,
      <<PInf, N(1)>>, <<PInf, 0>>, <<NaN, N(1)>> }

NewIn ==
    {PairIn(x[1], x[2]) : x \in XPairs}
    \cup {UndefIn, NumIn(N(2)), NumIn(NaN), ReImIn(N(2), N(2)), PolarIn(N(2), 0),
          PolarIn(N(1), N(1)), ObjIn, BoolIn, StrIn(<<>>),
          StrIn(<<Tok(FALSE, N(3)), Tok(TRUE, 0 - N(1))>>),
          StrIn(<<Tok(FALSE, NaN)>>)}

\* what the caller passes to a method that takes a Complex
ArgIn ==
    {RefIn(c) : c \in {ZERO, ONE, I}}
    \cup (IF recv > 0 THEN {RefIn(recv)} ELSE {})
    \cup {PairIn(N(1), N(2)), PairIn(N(2), N(1)), PairIn(0, N(2)), PairIn(N(2), 0),
          PairIn(0, 0), PairIn(MaxN, MaxN), PairIn(PInf, N(1)),
          NumIn(N(2)), UndefIn, ObjIn, StrIn(<<Tok(TRUE, N(1))>>),
          StrIn(<<Tok(FALSE, NaN)>>)}

\* the exponents of pow, and the places of ceil, floor and round
PowIn   == ArgIn \cup {NumIn(N(q)) : q \in {0 - 4, 0 - 3, 0 - 2, 0 - 1, 0, 1, 3, 4}}
               \cup {NumIn(Half)}
PlaceIn == {UndefIn, NumIn(N(1)), NumIn(0 - N(1))}

\* what an unrelated construction in between is given
DropIn == {PairIn(N(3), N(3)), PairIn(NaN, N(1)), ObjIn}

Init ==
    /\ heap = Loaded.heap
    /\ P = Loaded.P
    /\ recv = 0
    /\ res = Res("none", UndefIn, Thrown(Loaded, "ok"), NoVal, PUndef)

\* x = new Complex(in)
New ==
    /\ recv = 0
    /\ \E in \in NewIn : \E o \in Complex(Mach(heap, P), in) :
        /\ heap' = SubSeq(o.heap, 1, IF o.out = "ok" THEN o.val ELSE Len(heap))
        /\ recv' = o.val
        /\ P' = o.P
        /\ res' = Res("new", in, o, NoVal, PUndef)

\* x = Complex.ZERO, ...
Use ==
    /\ res.op = "none"
    /\ \E c \in Consts :
        /\ recv' = c
        /\ res' = Res("use", RefIn(c), Thrown(Mach(heap, P), "ok"), NoVal, PUndef)
        /\ UNCHANGED <<heap, P>>

\* new Complex(in), its value not kept
Drop ==
    /\ recv > 0
    /\ res.op \in {"new", "use"}
    /\ \E in \in DropIn : \E o \in Complex(Mach(heap, P), in) :
        /\ heap' = SubSeq(o.heap, 1, Len(heap))
        /\ P' = o.P
        /\ res' = Res("drop", in, o, NoVal, PUndef)
        /\ UNCHANGED recv

\* a call recv.op(in) that ends as o
Call(op, in, o) ==
    /\ heap' = SubSeq(o.heap, 1, Len(heap))
    /\ P' = o.P
    /\ recv' = recv
    /\ res' = Res(op, in, o, heap[recv], P)

Callable == recv > 0 /\ res.op \in {"new", "use", "drop"}
M == Mach(heap, P)

Sign == Callable /\ \E o \in sign(M, recv) : Call("sign", UndefIn, o)
Add  == Callable /\ \E in \in ArgIn : \E o \in add(M, recv, in) : Call("add", in, o)
Sub  == Callable /\ \E in \in ArgIn : \E o \in sub(M, recv, in) : Call("sub", in, o)
Mul  == Callable /\ \E in \in ArgIn : \E o \in mul(M, recv, in) : Call("mul", in, o)
Div  == Callable /\ \E in \in ArgIn : \E o \in div(M, recv, in) : Call("div", in, o)
Pow  == Callable /\ \E in \in PowIn : \E o \in pow(M, recv, in) : Call("pow", in, o)
Sqrt == Callable /\ \E o \in sqrt(M, recv) : Call("sqrt", UndefIn, o)
Exp  == Callable /\ \E o \in exp(M, recv) : Call("exp", UndefIn, o)
Log  == Callable /\ \E o \in log(M, recv) : Call("log", UndefIn, o)
Sin  == Callable /\ \E o \in sin(M, recv) : Call("sin", UndefIn, o)
Cos  == Callable /\ \E o \in cos(M, recv) : Call("cos", UndefIn, o)
Tan  == Callable /\ \E o \in tan(M, recv) : Call("tan", UndefIn, o)
Asin == Callable /\ \E o \in asin(M, recv) : Call("asin", UndefIn, o)
Acos == Callable /\ \E o \in acos(M, recv) : Call("acos", UndefIn, o)
Atan == Callable /\ \E o \in atan(M, recv) : Call("atan", UndefIn, o)
Sinh == Callable /\ \E o \in sinh(M, recv) : Call("sinh", UndefIn, o)
Cosh == Callable /\ \E o \in cosh(M, recv) : Call("cosh", UndefIn, o)
Tanh == Callable /\ \E o \in tanh(M, recv) : Call("tanh", UndefIn, o)
Inverse   == Callable /\ \E o \in inverse(M, recv) : Call("inverse", UndefIn, o)
Conjugate == Callable /\ \E o \in conjugate(M, recv) : Call("conjugate", UndefIn, o)
Neg   == Callable /\ \E o \in neg(M, recv) : Call("neg", UndefIn, o)
Ceil  == Callable /\ \E in \in PlaceIn : \E o \in ceil(M, recv, in) : Call("ceil", in, o)
Floor == Callable /\ \E in \in PlaceIn : \E o \in floor(M, recv, in) : Call("floor", in, o)
Round == Callable /\ \E in \in PlaceIn : \E o \in round(M, recv, in) : Call("round", in, o)
Equals == Callable /\ \E in \in ArgIn : \E o \in equals(M, recv, in) : Call("equals", in, o)
Clone == Callable /\ \E o \in clone(M, recv) : Call("clone", UndefIn, o)

Reload ==
    /\ res.op \notin {"none", "new", "use", "drop"}
    /\ heap' = Loaded.heap
    /\ P' = Loaded.P
    /\ recv' = 0
    /\ res' = Res("none", UndefIn, Thrown(Loaded, "ok"), NoVal, PUndef)

Next ==
    \/ New \/ Use \/ Drop \/ Reload
    \/ Sign \/ Add \/ Sub \/ Mul \/ Div \/ Pow \/ Sqrt \/ Exp \/ Log
    \/ Sin \/ Cos \/ Tan \/ Asin \/ Acos \/ Atan \/ Sinh \/ Cosh \/ Tanh
    \/ Inverse \/ Conjugate \/ Neg \/ Ceil \/ Floor \/ Round \/ Equals \/ Clone

Spec == Init /\ [][Next]_vars

(***************************************************************************)
(* Properties.  They are read off res, the record of the last call: its    *)
(* receiver x = res.self, its argument res.in and what it returned.        *)
(***************************************************************************)
Methods ==
    {"sign", "add", "sub", "mul", "div", "pow", "sqrt", "exp", "log", "sin", "cos",
     "tan", "asin", "acos", "atan", "sinh", "cosh", "tanh", "inverse", "conjugate",
     "neg", "ceil", "floor", "round", "equals", "clone"}

\* the call this.op(in) on machine m
Apply(op, m, this, in) ==
    CASE op = "sign" -> sign(m, this)       [] op = "add" -> add(m, this, in)
      [] op = "sub" -> sub(m, this, in)     [] op = "mul" -> mul(m, this, in)
      [] op = "div" -> div(m, this, in)     [] op = "pow" -> pow(m, this, in)
      [] op = "sqrt" -> sqrt(m, this)       [] op = "exp" -> exp(m, this)
      [] op = "log" -> log(m, this)         [] op = "sin" -> sin(m, this)
      [] op = "cos" -> cos(m, this)         [] op = "tan" -> tan(m, this)
      [] op = "asin" -> asin(m, this)       [] op = "acos" -> acos(m, this)
      [] op = "atan" -> atan(m, this)       [] op = "sinh" -> sinh(m, this)
      [] op = "cosh" -> cosh(m, this)       [] op = "tanh" -> tanh(m, this)
      [] op = "inverse" -> inverse(m, this) [] op = "conjugate" -> conjugate(m, this)
      [] op = "neg" -> neg(m, this)         [] op = "ceil" -> ceil(m, this, in)
      [] op = "floor" -> floor(m, this, in) [] op = "round" -> round(m, this, in)
      [] op = "equals" -> equals(m, this, in)
      [] op = "clone" -> clone(m, this)

\* whether the argument is a complex value, and the value y it is
IsValue(in) == in.k \in {"ref", "pair", "num"}
ArgValue(in) ==
    CASE in.k = "ref"  -> heap[in.a]
      [] in.k = "pair" -> Obj(in.a, in.b)
      [] OTHER         -> Obj(in.a, 0)

IsZero(v)      == v.re = 0 /\ v.im = 0
FiniteVal(v)   == IsFinite(v.re) /\ IsFinite(v.im)
\* u equals v, as the method equals decides it
Equal(u, v) ==
    /\ FLe(MathAbs(FSub(u.re, v.re)), EPSILON)
    /\ FLe(MathAbs(FSub(u.im, v.im)), EPSILON)

\* the machine in which the value the last call returned is an object, and
\* the address of that object
Kept     == Mach(Append(heap, res.val), P)
KeptAddr == Len(heap) + 1

\* C1: x.div(y) ends with DivisionByZero, returning no value, exactly when both
\* fields of the divisor y are zero, whatever the dividend x.
C1_DivByZeroIffDivisorZero ==
    (res.op = "div" /\ IsValue(res.in)) =>
        /\ (res.out = "DivisionByZero") <=> IsZero(ArgValue(res.in))
        /\ (res.out = "DivisionByZero") => ~res.has

\* ZERO.div(ZERO) has ended with DivisionByZero
C1_ZeroByZero ==
    /\ res.op = "div" /\ res.out = "DivisionByZero"
    /\ recv = ZERO /\ res.in = RefIn(ZERO)

(***************************************************************************)
(* Whether the steps of x.mul(y) and of z.div(y) round: Exact says that a  *)
(* quotient of integers is a Number of the format.                         *)
(***************************************************************************)
ExactMul(a, b) == Exact(a * b, Unit)
ExactAdd(a, b) == Exact(a + b, 1)
ExactDiv(a, b) == b # 0 /\ Exact(Sgn(b) * a * Unit, Mag(b))

ExactProduct(x, y) ==
    /\ ExactMul(x.re, y.re) /\ ExactMul(x.im, y.im)
    /\ ExactMul(x.re, y.im) /\ ExactMul(x.im, y.re)
    /\ ExactAdd(FMul(x.re, y.re), FNeg(FMul(x.im, y.im)))
    /\ ExactAdd(FMul(x.re, y.im), FMul(x.im, y.re))

\* the steps of Smith's algorithm with ratio r = n / d and t = n * r + d,
\* re = (p + q * r) / t and im = (q - p * r) / t up to the order of the terms
ExactSmith(n, d, p, q) ==
    /\ ExactDiv(n, d)
    /\ ExactMul(n, FDiv(n, d))
    /\ ExactAdd(FMul(n, FDiv(n, d)), d)
    /\ ExactMul(p, FDiv(n, d)) /\ ExactMul(q, FDiv(n, d))

ExactQuotient(z, y) ==
    IF Mag(y.re) < Mag(y.im)
    THEN LET r == FDiv(y.re, y.im)
             t == FAdd(FMul(y.re, r), y.im)
         IN  /\ ExactSmith(y.re, y.im, z.re, z.im)
             /\ ExactAdd(FMul(z.re, r), z.im)
             /\ ExactAdd(FMul(z.im, r), FNeg(z.re))
             /\ ExactDiv(FAdd(FMul(z.re, r), z.im), t)
             /\ ExactDiv(FSub(FMul(z.im, r), z.re), t)
    ELSE LET r == FDiv(y.im, y.re)
             t == FAdd(FMul(y.im, r), y.re)
         IN  /\ ExactSmith(y.im, y.re, z.re, z.im)
             /\ ExactAdd(z.re, FMul(z.im, r))
             /\ ExactAdd(z.im, FNeg(FMul(z.re, r)))
             /\ ExactDiv(FAdd(z.re, FMul(z.im, r)), t)
             /\ ExactDiv(FSub(z.im, FMul(z.re, r)), t)

\* x.mul(y) has returned z, for finite x and a finite y that is not zero
MulDone ==
    /\ res.op = "mul" /\ IsValue(res.in)
    /\ FiniteVal(res.self) /\ FiniteVal(ArgValue(res.in))
    /\ ~IsZero(ArgValue(res.in))

\* C2 (as stated): x.mul(y).div(y) equals x for every x and every y that is
\* not zero.
C2_RoundTrip ==
    MulDone =>
        /\ res.out = "ok"
        /\ \A o \in div(Kept, KeptAddr, res.in) :
               o.out = "ok" /\ Equal(o.heap[o.val], res.self)

\* C2 (amended): x.mul(y).div(y) is x whenever no step of the multiplication
\* and of the division rounds, in both branches of the division.
C2_RoundTripWhenExact ==
    (MulDone /\ res.out = "ok"
        /\ ExactProduct(res.self, ArgValue(res.in))
        /\ ExactQuotient(res.val, ArgValue(res.in))) =>
        \A o \in div(Kept, KeptAddr, res.in) :
            o.out = "ok" /\ o.heap[o.val] = res.self

\* an exact round trip through the branch |y.re| < |y.im|, on an x and a y
\* with no zero field
C2_ExactTripFirstBranch ==
    /\ MulDone /\ res.out = "ok"
    /\ ExactProduct(res.self, ArgValue(res.in))
    /\ ExactQuotient(res.val, ArgValue(res.in))
    /\ Mag(ArgValue(res.in).re) < Mag(ArgValue(res.in).im)
    /\ ArgValue(res.in).re # 0 /\ res.self.re # 0 /\ res.self.im # 0

\* C3: x.inverse() ends with DivisionByZero exactly when x is zero; for every
\* other finite x it returns (x.re / t, -x.im / t) with t = x.re^2 + x.im^2,
\* and x.mul(x.inverse()) equals ONE.
C3_InverseOfNonZero ==
    (res.op = "inverse" /\ FiniteVal(res.self)) =>
        LET a == res.self.re
            b == res.self.im
            t == FAdd(FMul(a, a), FMul(b, b))
        IN  /\ (res.out = "DivisionByZero") <=> IsZero(res.self)
            /\ ~IsZero(res.self) =>
                   /\ res.out = "ok"
                   /\ res.val = Obj(FDiv(a, t), FDiv(FNeg(b), t))
                   /\ \A o \in mul(Kept, recv, RefIn(KeptAddr)) :
                          o.out = "ok" /\ Equal(o.heap[o.val], heap[ONE])

\* C4: no step changes the fields of a shared constant, and a method call,
\* failed or not, changes the fields of no object that existed before it:
\* not its receiver's, not those of a Complex it was passed.
C4_NothingMutated ==
    [][ /\ \A c \in Consts : heap'[c] = heap[c]
        /\ res'.op \in Methods => heap' = heap ]_vars

\* a constructed object has been raised to the power of itself, and a call
\* that was passed a constant has failed
C4_PassedAsArgument ==
    /\ recv > NConsts /\ res.in.k = "ref"
    /\ \/ res.op = "pow" /\ res.in.a = recv /\ res.out = "ok"
       \/ res.op = "div" /\ res.in.a = ZERO /\ res.out # "ok"

\* the scratch records an operation may find: never written, left by a parse
\* that failed, left by another construction
StaleP == {PUndef, Obj(NaN, N(1)), Obj(N(3), N(3))}

\* C5: what a call returns (its value or its error) does not depend on the
\* contents of the scratch record P it starts from: started from any other
\* P, the same call on the same objects has the same outcome.
C5_OutcomeIndependentOfP ==
    res.op \in Methods =>
        \A p0 \in StaleP :
            \E o \in Apply(res.op, Mach(heap, p0), recv, res.in) :
                Res(res.op, res.in, o, res.self, res.P0) = res

\* a call passed a Number has returned after a construction that failed had
\* left NaN in P
C5_AfterFailedParse ==
    /\ res.op \in {"add", "mul"} /\ res.in.k = "num" /\ res.out = "ok"
    /\ IsNaN(res.P0.re) /\ res.P0.im # 0

\* whether the argument of the last call is a successfully constructed value,
\* a finite Number or absent
ArgConstructed ==
    \/ res.in.k \in {"undef", "ref"}
    \/ res.in.k = "num" /\ IsFinite(res.in.a)

\* C6: on constructed values only div, inverse and atan can end with an
\* error, and only with DivisionByZero; every other call returns a value, and
\* ZERO.sign() returns one whose two fields are NaN.
C6_OnlyDivisionByZero ==
    (res.op \in Methods /\ ArgConstructed) =>
        /\ res.out # "ok" =>
               res.op \in {"div", "inverse", "atan"} /\ res.out = "DivisionByZero"
        /\ (res.op = "sign" /\ IsZero(res.self)) =>
               res.has /\ IsNaN(res.val.re) /\ IsNaN(res.val.im)

FiniteOrNaN(v) ==
    /\ IsFinite(v.re) \/ IsNaN(v.re)
    /\ IsFinite(v.im) \/ IsNaN(v.im)

\* C7: every Complex object that exists, and every value a call returns, has
\* two fields that are finite or NaN; a construction from a pair of Numbers
\* that are not both finite fails with InvalidArgument.
C7_FieldsFiniteOrNaN ==
    /\ \A i \in DOMAIN heap : FiniteOrNaN(heap[i])
    /\ res.has => FiniteOrNaN(res.val)
    /\ (res.op = "new" /\ res.in.k = "pair"
            /\ ~(IsFinite(res.in.a) /\ IsFinite(res.in.b))) =>
           res.out = "InvalidArgument"

\* the closed form of x^n for x = (0, b), w being b^n
ClosedForm(r, w) ==
    CASE r = 0 -> Obj(w, 0)
      [] r = 1 -> Obj(0, w)
      [] r = 2 -> Obj(FNeg(w), 0)
      [] OTHER -> Obj(0, FNeg(w))

\* C8: for x = (0, b) with b # 0 and an integer n of either sign, x.pow(n)
\* returns the closed form that n mod 4 selects (wherever b^n is finite, so
\* that the closed form is a value the constructor accepts).
C8_PowOfImaginary ==
    (res.op = "pow" /\ res.in.k = "num" /\ IsInt(res.in.a)
        /\ res.self.re = 0 /\ res.self.im # 0 /\ IsFinite(res.self.im)
        /\ \A w \in MathPow(res.self.im, res.in.a) : IsFinite(w)) =>
        /\ res.out = "ok"
        /\ \E w \in MathPow(res.self.im, res.in.a) :
               res.val = ClosedForm((res.in.a \div Unit) % 4, w)

\* C9: z.atan() ends with DivisionByZero exactly when z = (0, 1), the value of
\* I, where the divisor I.sub(z) of its first division is zero; the failed
\* call returns nothing and leaves z and the constant I as they were.
C9_AtanFailsExactlyAtI ==
    res.op = "atan" =>
        /\ (res.out = "DivisionByZero") <=> (res.self = Obj(0, Unit))
        /\ (res.out = "DivisionByZero") =>
               /\ ~res.has
               /\ heap[recv] = res.self
               /\ heap[I] = Obj(0, Unit)

\* atan has failed on a constructed z = (0, 1)
C9_AtanOfConstructedI ==
    /\ res.op = "atan" /\ res.out = "DivisionByZero"
    /\ recv > NConsts /\ res.self = Obj(0, Unit)

\* C10: for finite x, x.sqrt() returns (sqrt((r + x.re) / 2),
\* sqrt((r - x.re) / 2) * heaviside(x.im)) with r = abs(x): a real part that is
\* not negative, an imaginary part that has not the sign opposite to x.im's,
\* and a value whose product with itself equals x.
C10_SqrtIsPrincipalRoot ==
    (res.op = "sqrt" /\ FiniteVal(res.self)) =>
        LET r == abs(Mach(heap, P), recv) IN
        /\ res.out = "ok"
        /\ res.val = Obj(MathSqrt(FMul(FAdd(r, res.self.re), Half)),
                         FMul(MathSqrt(FMul(FSub(r, res.self.re), Half)),
                              IF res.self.im < 0 THEN 0 - Unit ELSE Unit))
        /\ res.val.re >= 0
        /\ Sgn(res.val.im) * Sgn(res.self.im) >= 0
        /\ \A o \in mul(Kept, KeptAddr, RefIn(KeptAddr)) :
               o.out = "ok" /\ Equal(o.heap[o.val], res.self)

\* C11: in div, once the divisor (c, d) has passed the zero check, no scalar
\* division is by zero: the denominator of the ratio x (d when |c| < |d|, c
\* otherwise) is not zero, and neither is the common denominator t.
C11_NoScalarDivisionByZero ==
    res.op = "div" =>
        \A p \in parse(Mach(heap, res.P0), res.in) :
            (p.out = "ok" /\ ~(FEq(0, p.P.re) /\ FEq(0, p.P.im))) =>
                /\ divRatioDenominator(p.P.re, p.P.im) # 0
                /\ divT(p.P.re, p.P.im) # 0

\* a division has returned whose divisor took the branch of line 289 and whose
\* product c * x underflowed to zero, leaving t = d
C11_ProductUnderflows ==
    /\ res.op = "div"
    /\ res.out = "ok"
    /\ res.in.k = "ref"
    /\ LET c == heap[res.in.a].re
           d == heap[res.in.a].im
       IN  /\ c # 0
           /\ divSwaps(c, d)
           /\ FMul(c, divX(c, d)) = 0
           /\ divT(c, d) = d

=============================================================================
